---- MODULE Spec2Model ----
(***************************************************************************)
(* Model of Interpreter::instantiate (lib/interpreter/instantiate/module   *)
(* .cpp): the module instantiation pipeline of SSVM together with the      *)
(* runtime store, stack and constant-expression evaluator it drives.       *)
(*                                                                         *)
(* One call of instantiate is a run of the program counter pc through the  *)
(* pipeline steps, in the order of the source; pc = "idle" is the caller   *)
(* between two calls.  Each section of the AST module is drawn from a      *)
(* small set of alternatives at the point where the source reads it        *)
(* (Mod.getXxxSection()), and kept in Mod from then on.                    *)
(***************************************************************************)
EXTENDS Integers, Sequences, FiniteSets, TLC

(***************************************************************************)
(* Bounds of the model.                                                    *)
(***************************************************************************)
\* number of module instances the Store may hold when a call is entered
MaxModInsts == 2
\* capacity (min limit) of the tables and, in pages, of the memories declared
LimitMin == 2
\* bytes per memory page in the model (65536 in the program)
PageSize == 2

Names == {"A", "B"}

NoAddr == -1

\* error codes (ErrCode), Success being the value of an Expect that holds
Success == "Success"

RangeOf(s) == {s[i] : i \in 1..Len(s)}

(***************************************************************************)
(* Runtime::StoreManager.                                                  *)
(***************************************************************************)
EmptyStore ==
  [ModInsts |-> <<>>, FuncInsts |-> <<>>, TabInsts |-> <<>>,
   MemInsts |-> <<>>, GlobInsts |-> <<>>, ModMap |-> {}]

\* StoreMgr.reset(): purge all arenas
StoreReset(S) == EmptyStore

\* the name bindings of S for name n
Bindings(S, n) == {b \in S.ModMap : b.name = n}

\* StoreMgr.findModule(Name): the address bound to the name, or NoAddr
findModule(S, n) ==
  IF Bindings(S, n) = {} THEN NoAddr
  ELSE (CHOOSE b \in Bindings(S, n) : TRUE).addr

NewModuleInstance(n) ==
  [Name |-> n, Addr |-> NoAddr, FuncTypes |-> <<>>, FuncAddrs |-> <<>>,
   TabAddrs |-> <<>>, MemAddrs |-> <<>>, GlobAddrs |-> <<>>,
   Exports |-> <<>>, StartIdx |-> NoAddr]

\* append the instance to the module arena and publish its name in a bucket
placeModule(S, inst, bucket) ==
  LET a == Len(S.ModInsts) IN
  [S EXCEPT !.ModInsts = Append(@, [inst EXCEPT !.Addr = a]),
            !.ModMap = (@ \ Bindings(S, inst.Name))
                         \cup {[name |-> inst.Name, addr |-> a,
                                bucket |-> bucket]}]

pushModule(S, inst) == placeModule(S, inst, "Instantiate")

importModule(S, inst) == placeModule(S, inst, "Import")

\* the module instance at an address (addresses count from 0)
getModule(S, a) == S.ModInsts[a + 1]

setModule(S, a, inst) == [S EXCEPT !.ModInsts[a + 1] = inst]

(***************************************************************************)
(* Runtime::StackManager: a sequence of frames and values.                 *)
(***************************************************************************)
Frame(modAddr, arity, coarity) ==
  [kind |-> "frame", mod |-> modAddr, arity |-> arity, coarity |-> coarity,
   type |-> "none", v |-> 0]

Value(t, v) ==
  [kind |-> "value", mod |-> NoAddr, arity |-> 0, coarity |-> 0,
   type |-> t, v |-> v]

pushFrame(stk, modAddr, arity, coarity) ==
  Append(stk, Frame(modAddr, arity, coarity))

FrameIdxs(stk) == {i \in 1..Len(stk) : stk[i].kind = "frame"}

TopFrameIdx(stk) ==
  CHOOSE i \in FrameIdxs(stk) : \A j \in FrameIdxs(stk) : j <= i

\* pop_frame: truncate back to the height recorded on frame entry
popFrame(stk) ==
  IF FrameIdxs(stk) = {} THEN stk ELSE SubSeq(stk, 1, TopFrameIdx(stk) - 1)

\* the Stack on which the evaluator runs the initializers of the globals:
\* it pushes a synthetic frame referencing the instance under construction
GlobalEvalStack(stk, modAddr) == pushFrame(stk, modAddr, 0, 0)

(***************************************************************************)
(* AST types (common/ast/type.h) and descriptions (common/ast/description  *)
(* .h).                                                                    *)
(***************************************************************************)
\* Limit(MinVal) and Limit(MinVal, MaxVal)
LimitHasMin(min) == [HasMinMax |-> FALSE, Min |-> min, Max |-> 0]

LimitHasMinMax(min, max) == [HasMinMax |-> TRUE, Min |-> min, Max |-> max]

hasMax(lim) == lim.HasMinMax

FunctionType(params, returns) ==
  [ParamTypes |-> params, ReturnTypes |-> returns]

GlobalType(t, mut) == [Type |-> t, Mut |-> mut]

\* an initializer expression: one opcode with its immediate
Expr(op, v) == [op |-> op, v |-> v]

\* ImportDesc: module name, external name, external type and the content
\* variant (ContentKind is the alternative the variant holds)
ImportDesc(modName, extName, extType, contentKind, typeIdx, lim, gt) ==
  [ModName |-> modName, ExtName |-> extName, ExtType |-> extType,
   ContentKind |-> contentKind, TypeIdx |-> typeIdx, Lim |-> lim,
   GlobType |-> gt]

\* ImportDesc::getExternalContent<T>()
getExternalContent(d, kind) ==
  IF d.ContentKind = kind THEN Success ELSE "IncompatibleImportType"

\* ExportDesc: external name, external type and external index
ExportDesc(extName, extType, extIdx) ==
  [ExtName |-> extName, ExtType |-> extType, ExtIdx |-> extIdx]

(***************************************************************************)
(* Constant expression evaluator.  nImp is the number of imported globals  *)
(* of the instance (the low end of its global address space).              *)
(***************************************************************************)
ConstOps == {"i32.const", "i64.const", "f32.const", "f64.const"}

ConstType(op) ==
  CASE op = "i32.const" -> "i32"
    [] op = "i64.const" -> "i64"
    [] op = "f32.const" -> "f32"
    [] OTHER -> "f64"

EvalExpr(S, inst, nImp, e) ==
  IF e.op \in ConstOps
  THEN [err |-> Success, type |-> ConstType(e.op), v |-> e.v]
  ELSE IF /\ e.op = "global.get"
          /\ e.v >= 0 /\ e.v < nImp /\ e.v < Len(inst.GlobAddrs)
          /\ inst.GlobAddrs[e.v + 1] < Len(S.GlobInsts)
          /\ S.GlobInsts[inst.GlobAddrs[e.v + 1] + 1].Mut = "Const"
  THEN [err |-> Success,
        type |-> S.GlobInsts[inst.GlobAddrs[e.v + 1] + 1].Type,
        v |-> S.GlobInsts[inst.GlobAddrs[e.v + 1] + 1].Val]
  ELSE [err |-> "InvalidInitializer", type |-> "none", v |-> 0]

(***************************************************************************)
(* Import resolver and type matcher.                                       *)
(***************************************************************************)
\* indices of the exports of a module instance carrying a name
ExportIdxs(inst, n) ==
  {i \in 1..Len(inst.Exports) : inst.Exports[i].ExtName = n}

findExport(inst, n) ==
  inst.Exports[CHOOSE i \in ExportIdxs(inst, n) :
                 \A j \in ExportIdxs(inst, n) : i <= j]

\* the address space of an instance for an external type
AddrSpace(inst, kind) ==
  CASE kind = "Function" -> inst.FuncAddrs
    [] kind = "Table" -> inst.TabAddrs
    [] kind = "Memory" -> inst.MemAddrs
    [] OTHER -> inst.GlobAddrs

\* the Store address an export of an instance resolves to, or NoAddr
ExportAddr(inst, e) ==
  IF e.ExtIdx >= 0 /\ e.ExtIdx < Len(AddrSpace(inst, e.ExtType))
  THEN AddrSpace(inst, e.ExtType)[e.ExtIdx + 1] ELSE NoAddr

matchLimit(imp, act) ==
  /\ imp.Min <= act.Min
  /\ hasMax(imp) => (hasMax(act) /\ act.Max <= imp.Max)

\* the function type of the function at a Store address
FuncTypeOf(S, a) ==
  getModule(S, S.FuncInsts[a + 1].Mod).FuncTypes[S.FuncInsts[a + 1].Type + 1]

matchType(S, importer, d, a) ==
  CASE d.ExtType = "Function" ->
         /\ d.TypeIdx < Len(importer.FuncTypes)
         /\ importer.FuncTypes[d.TypeIdx + 1] = FuncTypeOf(S, a)
    [] d.ExtType = "Table" -> matchLimit(d.Lim, S.TabInsts[a + 1].Lim)
    [] d.ExtType = "Memory" -> matchLimit(d.Lim, S.MemInsts[a + 1].Lim)
    [] OTHER -> /\ d.GlobType.Type = S.GlobInsts[a + 1].Type
                /\ d.GlobType.Mut = S.GlobInsts[a + 1].Mut

\* the error of matching one import descriptor, Success if it matches
importError(S, importer, d) ==
  IF findModule(S, d.ModName) = NoAddr THEN "UnknownImport"
  ELSE LET exporter == getModule(S, findModule(S, d.ModName)) IN
    IF ExportIdxs(exporter, d.ExtName) = {} THEN "UnknownImport"
    ELSE LET e == findExport(exporter, d.ExtName) IN
      IF e.ExtType # d.ExtType THEN "IncompatibleImportType"
      ELSE IF getExternalContent(d, d.ExtType) # Success
      THEN getExternalContent(d, d.ExtType)
      ELSE IF ExportAddr(exporter, e) = NoAddr THEN "BadAddress"
      ELSE IF ~matchType(S, importer, d, ExportAddr(exporter, e))
      THEN "IncompatibleImportType"
      ELSE Success

\* the Store address a matched import descriptor resolves to
importAddr(S, d) ==
  LET exporter == getModule(S, findModule(S, d.ModName))
  IN ExportAddr(exporter, findExport(exporter, d.ExtName))

\* the instance with an address appended to the space of an external type
addAddr(inst, kind, a) ==
  CASE kind = "Function" -> [inst EXCEPT !.FuncAddrs = Append(@, a)]
    [] kind = "Table" -> [inst EXCEPT !.TabAddrs = Append(@, a)]
    [] kind = "Memory" -> [inst EXCEPT !.MemAddrs = Append(@, a)]
    [] OTHER -> [inst EXCEPT !.GlobAddrs = Append(@, a)]

\* instantiate(StoreMgr, ModInst, ImportSec): the descriptors from the i-th
RECURSIVE instantiateImports(_, _, _, _)
instantiateImports(S, ma, descs, i) ==
  IF i > Len(descs) THEN [store |-> S, err |-> Success]
  ELSE LET err == importError(S, getModule(S, ma), descs[i]) IN
    IF err # Success THEN [store |-> S, err |-> err]
    ELSE instantiateImports(
           setModule(S, ma, addAddr(getModule(S, ma), descs[i].ExtType,
                                    importAddr(S, descs[i]))),
           ma, descs, i + 1)

\* number of imports of a kind a module declares
NumImported(importSec, kind) ==
  IF importSec.present
  THEN Cardinality({i \in 1..Len(importSec.content) :
                      importSec.content[i].ExtType = kind})
  ELSE 0

\* number of imported globals of a module
NumImportedGlobals(importSec) == NumImported(importSec, "Global")

(***************************************************************************)
(* The per-section instantiation routines called by the pipeline.  Each    *)
(* returns the Store it leaves behind and its Expect (err).                *)
(***************************************************************************)
\* ModInst->addFuncType for every function type of the Type section
addFuncTypes(S, ma, types) ==
  setModule(S, ma, [getModule(S, ma) EXCEPT !.FuncTypes = @ \o types])

\* instantiate(StoreMgr, ModInst, FuncSec, CodeSec): the pairs from the i-th
RECURSIVE instantiateFuncs(_, _, _, _, _)
instantiateFuncs(S, ma, typeIdxs, bodies, i) ==
  IF i > Len(typeIdxs) \/ i > Len(bodies) THEN [store |-> S, err |-> Success]
  ELSE LET a == Len(S.FuncInsts)
           S1 == [S EXCEPT !.FuncInsts =
                    Append(@, [Type |-> typeIdxs[i], Mod |-> ma,
                               Body |-> bodies[i]])]
       IN instantiateFuncs(
            setModule(S1, ma, addAddr(getModule(S1, ma), "Function", a)),
            ma, typeIdxs, bodies, i + 1)

\* instantiate(StoreMgr, ModInst, GlobSec): the globals from the i-th
RECURSIVE instantiateGlobals(_, _, _, _, _)
instantiateGlobals(S, ma, nImp, globs, i) ==
  IF i > Len(globs) THEN [store |-> S, err |-> Success]
  ELSE LET r == EvalExpr(S, getModule(S, ma), nImp, globs[i].Init) IN
    IF r.err # Success THEN [store |-> S, err |-> r.err]
    ELSE IF r.type # globs[i].GlobType.Type
    THEN [store |-> S, err |-> "InvalidInitializer"]
    ELSE LET a == Len(S.GlobInsts)
             S1 == [S EXCEPT !.GlobInsts =
                      Append(@, [Type |-> globs[i].GlobType.Type,
                                 Mut |-> globs[i].GlobType.Mut,
                                 Val |-> r.v])]
         IN instantiateGlobals(
              setModule(S1, ma, addAddr(getModule(S1, ma), "Global", a)),
              ma, nImp, globs, i + 1)

\* instantiate(StoreMgr, ModInst, TabSec): a table of min holes per type
RECURSIVE instantiateTables(_, _, _, _)
instantiateTables(S, ma, lims, i) ==
  IF i > Len(lims) THEN [store |-> S, err |-> Success]
  ELSE LET a == Len(S.TabInsts)
           S1 == [S EXCEPT !.TabInsts =
                    Append(@, [Lim |-> lims[i],
                               Elems |-> [k \in 1..lims[i].Min |-> NoAddr]])]
       IN instantiateTables(
            setModule(S1, ma, addAddr(getModule(S1, ma), "Table", a)),
            ma, lims, i + 1)

\* instantiate(StoreMgr, ModInst, MemSec): a memory of min zeroed pages
RECURSIVE instantiateMemories(_, _, _, _)
instantiateMemories(S, ma, lims, i) ==
  IF i > Len(lims) THEN [store |-> S, err |-> Success]
  ELSE LET a == Len(S.MemInsts)
           S1 == [S EXCEPT !.MemInsts =
                    Append(@, [Lim |-> lims[i],
                               Bytes |-> [k \in 1..(lims[i].Min * PageSize)
                                            |-> 0]])]
       IN instantiateMemories(
            setModule(S1, ma, addAddr(getModule(S1, ma), "Memory", a)),
            ma, lims, i + 1)

\* resolveExpression(StoreMgr, ModInst, Sec): the offsets of the segments
\* from the i-th, each of which must evaluate to a single i32
RECURSIVE resolveExpression(_, _, _, _, _)
resolveExpression(S, ma, nImp, segs, i) ==
  IF i > Len(segs) THEN [err |-> Success, offsets |-> <<>>]
  ELSE LET r == EvalExpr(S, getModule(S, ma), nImp, segs[i].Offset) IN
    IF r.err # Success THEN [err |-> r.err, offsets |-> <<>>]
    ELSE IF r.type # "i32"
    THEN [err |-> "InvalidInitializer", offsets |-> <<>>]
    ELSE LET rest == resolveExpression(S, ma, nImp, segs, i + 1) IN
      IF rest.err # Success THEN rest
      ELSE [err |-> Success, offsets |-> <<r.v>> \o rest.offsets]

\* the function address an element of a segment stands for
ElemAddr(inst, idx) ==
  IF idx >= 0 /\ idx < Len(inst.FuncAddrs) THEN inst.FuncAddrs[idx + 1]
  ELSE NoAddr

\* instantiate(StoreMgr, ModInst, ElemSec, Offsets): the segments from the
\* i-th, each bounds-checked and then written
RECURSIVE instantiateElems(_, _, _, _, _)
instantiateElems(S, ma, segs, offs, i) ==
  IF i > Len(segs) THEN [store |-> S, err |-> Success]
  ELSE LET inst == getModule(S, ma) IN
    IF segs[i].Idx >= Len(inst.TabAddrs)
    THEN [store |-> S, err |-> "BadAddress"]
    ELSE LET a == inst.TabAddrs[segs[i].Idx + 1]
             n == Len(segs[i].Init)
         IN IF offs[i] + n > Len(S.TabInsts[a + 1].Elems)
            THEN [store |-> S, err |-> "TableOutOfRange"]
            ELSE instantiateElems(
                   [S EXCEPT !.TabInsts[a + 1].Elems =
                      [k \in DOMAIN @ |->
                         IF k > offs[i] /\ k <= offs[i] + n
                         THEN ElemAddr(inst, segs[i].Init[k - offs[i]])
                         ELSE @[k]]],
                   ma, segs, offs, i + 1)

\* instantiate(StoreMgr, ModInst, DataSec, Offsets): the same for memories
RECURSIVE instantiateDatas(_, _, _, _, _)
instantiateDatas(S, ma, segs, offs, i) ==
  IF i > Len(segs) THEN [store |-> S, err |-> Success]
  ELSE LET inst == getModule(S, ma) IN
    IF segs[i].Idx >= Len(inst.MemAddrs)
    THEN [store |-> S, err |-> "BadAddress"]
    ELSE LET a == inst.MemAddrs[segs[i].Idx + 1]
             n == Len(segs[i].Init)
         IN IF offs[i] + n > Len(S.MemInsts[a + 1].Bytes)
            THEN [store |-> S, err |-> "MemoryOutOfRange"]
            ELSE instantiateDatas(
                   [S EXCEPT !.MemInsts[a + 1].Bytes =
                      [k \in DOMAIN @ |->
                         IF k > offs[i] /\ k <= offs[i] + n
                         THEN segs[i].Init[k - offs[i]]
                         ELSE @[k]]],
                   ma, segs, offs, i + 1)

\* instantiate(StoreMgr, ModInst, ExportSec): the entries from the i-th
RECURSIVE instantiateExports(_, _, _, _)
instantiateExports(S, ma, descs, i) ==
  IF i > Len(descs) THEN [store |-> S, err |-> Success]
  ELSE IF ExportIdxs(getModule(S, ma), descs[i].ExtName) # {}
  THEN [store |-> S, err |-> "DuplicateExportName"]
  ELSE instantiateExports(
         setModule(S, ma, [getModule(S, ma) EXCEPT
                             !.Exports = Append(@, descs[i])]),
         ma, descs, i + 1)

\* runFunction(StoreMgr, FuncInst, {}): the result of running a body
runFunction(S, f) ==
  IF f.Body = "unreachable" THEN "StartTrap" ELSE Success

(***************************************************************************)
(* The AST modules handed to instantiate: a section is absent (the         *)
(* accessor returns nullptr) or present with its content.                  *)
(***************************************************************************)
Absent == [present |-> FALSE, content |-> <<>>]

Sec(c) == [present |-> TRUE, content |-> c]

NoStart == [present |-> FALSE, content |-> 0]

StartAt(idx) == [present |-> TRUE, content |-> idx]

\* a module none of whose sections has been read yet
UnreadModule ==
  [TypeSec |-> Absent, ImportSec |-> Absent, FuncSec |-> Absent,
   CodeSec |-> Absent, GlobSec |-> Absent, TabSec |-> Absent,
   MemSec |-> Absent, ElemSec |-> Absent, DataSec |-> Absent,
   ExportSec |-> Absent, Ctor |-> FALSE, StartSec |-> NoStart]

GlobalDecl(gt, init) == [GlobType |-> gt, Init |-> init]

Segment(idx, offset, init) == [Idx |-> idx, Offset |-> offset, Init |-> init]

TypeOpts == {Absent, Sec(<<FunctionType(<<>>, <<"i32">>)>>)}

\* none; an empty section; the global and the table module "A" may export
ImportOpts ==
  {Absent,
   Sec(<<>>),
   Sec(<<ImportDesc("A", "g0", "Global", "Global", 0, LimitHasMin(0),
                    GlobalType("i32", "Const"))>>),
   Sec(<<ImportDesc("A", "t0", "Table", "Table", 0, LimitHasMin(1),
                    GlobalType("i32", "Const"))>>)}

\* Function section and Code section, read together; a function refers to
\* a type of the Type section
FuncCodeOpts(typeSec) ==
  IF typeSec.present
  THEN {<<Absent, Absent>>,
        <<Sec(<<0>>), Sec(<<"i32.const 42">>)>>,
        <<Sec(<<0>>), Sec(<<"unreachable">>)>>}
  ELSE {<<Absent, Absent>>}

GlobOpts ==
  {Absent,
   Sec(<<GlobalDecl(GlobalType("i32", "Const"), Expr("i32.const", 7)),
         GlobalDecl(GlobalType("i64", "Var"), Expr("i64.const", 8))>>),
   Sec(<<GlobalDecl(GlobalType("i32", "Const"), Expr("global.get", 0))>>)}

TabOpts == {Absent, Sec(<<LimitHasMin(LimitMin)>>)}

MemOpts == {Absent, Sec(<<LimitHasMin(LimitMin)>>)}

\* the segments of a module target table 0 / memory 0, which the module
\* imports or declares.  In bounds; a second segment past the end; an offset
\* that is no i32
ElemOpts(m) ==
  IF NumImported(m.ImportSec, "Table") + Len(m.TabSec.content) = 0
  THEN {Absent}
  ELSE {Absent,
        Sec(<<Segment(0, Expr("i32.const", 0), <<0>>)>>),
        Sec(<<Segment(0, Expr("i32.const", 0), <<0>>),
              Segment(0, Expr("i32.const", LimitMin), <<0>>)>>),
        Sec(<<Segment(0, Expr("i64.const", 0), <<0>>)>>)}

DataOpts(m) ==
  IF NumImported(m.ImportSec, "Memory") + Len(m.MemSec.content) = 0
  THEN {Absent}
  ELSE {Absent,
        Sec(<<Segment(0, Expr("i32.const", 0), <<1>>)>>),
        Sec(<<Segment(0, Expr("i32.const", 0), <<1>>),
              Segment(0, Expr("i32.const", LimitMin * PageSize - 1),
                      <<2, 3>>)>>),
        Sec(<<Segment(0, Expr("nop", 0), <<1>>)>>)}

ExportOpts ==
  {Absent,
   Sec(<<ExportDesc("g0", "Global", 0), ExportDesc("t0", "Table", 0)>>),
   Sec(<<ExportDesc("f", "Function", 0), ExportDesc("f", "Function", 0)>>)}

StartOpts == {NoStart, StartAt(0)}

InstantiateModes == {"Instantiate", "Import"}

(***************************************************************************)
(* What a caller can observe of a Store: which names are bound, and what   *)
(* the exports of the bound instances resolve to.                          *)
(***************************************************************************)
\* the content of the entity of a kind at a Store address
EntityContent(S, kind, a) ==
  CASE a = NoAddr -> <<>>
    [] kind = "Table" /\ a < Len(S.TabInsts) -> S.TabInsts[a + 1].Elems
    [] kind = "Memory" /\ a < Len(S.MemInsts) -> S.MemInsts[a + 1].Bytes
    [] kind = "Global" /\ a < Len(S.GlobInsts) -> <<S.GlobInsts[a + 1].Val>>
    [] OTHER -> <<>>

\* the global type of the entity of a kind at a Store address, if a global
EntityGlobType(S, kind, a) ==
  IF kind = "Global" /\ a >= 0 /\ a < Len(S.GlobInsts)
  THEN GlobalType(S.GlobInsts[a + 1].Type, S.GlobInsts[a + 1].Mut)
  ELSE GlobalType("none", "none")

ExportLookups(S, inst) ==
  {[name |-> e.ExtName, kind |-> e.ExtType, addr |-> ExportAddr(inst, e),
    content |-> EntityContent(S, e.ExtType, ExportAddr(inst, e)),
    globType |-> EntityGlobType(S, e.ExtType, ExportAddr(inst, e))] :
     e \in RangeOf(inst.Exports)}

Observable(S) ==
  [n \in Names |->
     IF findModule(S, n) = NoAddr THEN [found |-> FALSE, exports |-> {}]
     ELSE [found |-> TRUE,
           exports |-> ExportLookups(S, getModule(S, findModule(S, n)))]]

(***************************************************************************)
(* State.                                                                  *)
(***************************************************************************)
VARIABLES
  store,        \* StoreMgr
  stack,        \* StackMgr
  instrPdr,     \* InstrPdr: "clean" after reset, "dirty" once code has run
  pc,           \* "idle", or the pipeline step instantiate is about to take
  Mod,          \* the AST module of the call, as far as it has been read
  Name,         \* the name argument of the call
  InsMode,      \* Interpreter::InsMode
  ModInstAddr,  \* the address of the instance under construction
  ElemOffsets,  \* the resolved offsets of the element segments
  DataOffsets,  \* the resolved offsets of the data segments
  result,       \* what the last call returned ("Running" during a call)
  log,          \* history: the steps the call has executed, in order
  entryStore,   \* history: the Store as the call found it, kept until the
                \* name-uniqueness check has run
  preObs,       \* history: Observable(Store) as the call found it
  okNames,      \* history: names instantiated with success since the caller
                \* last reset the Store
  failed,       \* history: the first step of the call that produced an error
  ctorCalls,    \* history: constructor hook invocations of the call
  startRuns,    \* history: functions run by the start step of the call
  retry         \* history: the call before this one failed, under the same
                \* name, and the caller has not reset the Store in between

vars ==
  <<store, stack, instrPdr, pc, Mod, Name, InsMode, ModInstAddr, ElemOffsets,
    DataOffsets, result, log, entryStore, preObs, okNames, failed, ctorCalls,
    startRuns, retry>>

NoFailure == [step |-> "none", err |-> Success]

Init ==
  /\ store = EmptyStore
  /\ stack = <<>>
  /\ instrPdr = "clean"
  /\ pc = "idle"
  /\ Mod = UnreadModule
  /\ Name = "A"
  /\ InsMode = "Instantiate"
  /\ ModInstAddr = NoAddr
  /\ ElemOffsets = <<>>
  /\ DataOffsets = <<>>
  /\ result = "None"
  /\ log = <<>>
  /\ entryStore = EmptyStore
  /\ preObs = Observable(EmptyStore)
  /\ okNames = {}
  /\ failed = NoFailure
  /\ ctorCalls = 0
  /\ startRuns = 0
  /\ retry = FALSE

(***************************************************************************)
(* The order of the pipeline, and the way every step hands over: on an     *)
(* error instantiate returns it, otherwise the next step follows, and      *)
(* after the last step instantiate returns success.                        *)
(***************************************************************************)
Pipeline ==
  <<"CheckName", "PushModule", "TypeSec", "ImportSec", "FuncSec", "GlobSec",
    "TabSec", "MemSec", "PushFrame", "ResolveElem", "ResolveData", "PopFrame",
    "InitElem", "InitData", "ExportSec", "Ctor", "StartSec">>

StepNo(p) == CHOOSE i \in 1..Len(Pipeline) : Pipeline[i] = p

\* NextPc with the constructor hook called before the exports are published
NextPcCtorFirst(p) ==
  LET order == <<"CheckName", "PushModule", "TypeSec", "ImportSec",
                 "FuncSec", "GlobSec", "TabSec", "MemSec", "PushFrame",
                 "ResolveElem", "ResolveData", "PopFrame", "InitElem",
                 "InitData", "Ctor", "ExportSec", "StartSec">>
      no == CHOOSE i \in 1..Len(order) : order[i] = p
  IN IF no = Len(order) THEN "idle" ELSE order[no + 1]

\* NextPc with the element segments applied as soon as their own offsets
\* are resolved, before the offsets of the data segments
NextPcElemsEarly(p) ==
  LET order == <<"CheckName", "PushModule", "TypeSec", "ImportSec",
                 "FuncSec", "GlobSec", "TabSec", "MemSec", "PushFrame",
                 "ResolveElem", "InitElem", "ResolveData", "PopFrame",
                 "InitData", "ExportSec", "Ctor", "StartSec">>
      no == CHOOSE i \in 1..Len(order) : order[i] = p
  IN IF no = Len(order) THEN "idle" ELSE order[no + 1]

\* NextPc with the exports published before the segments are applied
NextPcExportsFirst(p) ==
  LET order == <<"CheckName", "PushModule", "TypeSec", "ImportSec",
                 "FuncSec", "GlobSec", "TabSec", "MemSec", "PushFrame",
                 "ResolveElem", "ResolveData", "PopFrame", "ExportSec",
                 "InitElem", "InitData", "Ctor", "StartSec">>
      no == CHOOSE i \in 1..Len(order) : order[i] = p
  IN IF no = Len(order) THEN "idle" ELSE order[no + 1]

NextPc(p) ==
  IF StepNo(p) = Len(Pipeline) THEN "idle" ELSE Pipeline[StepNo(p) + 1]

\* Proceed with the Expect of the step left unchecked: the next step
\* follows whatever the step returned
ProceedIgnoringError(cur, ran, err) ==
  /\ log' = IF ran THEN Append(log, cur) ELSE log
  /\ failed' = IF err # Success /\ failed = NoFailure
               THEN [step |-> cur, err |-> err] ELSE failed
  /\ pc' = NextPc(cur)
  /\ result' = IF NextPc(cur) = "idle" THEN Success ELSE result
  /\ okNames' = IF NextPc(cur) = "idle" THEN okNames \cup {Name} ELSE okNames

\* step cur hands over with the Expect err; ran tells whether it did any
\* work (its section was present)
Proceed(cur, ran, err) ==
  /\ log' = IF ran THEN Append(log, cur) ELSE log
  /\ failed' = IF err # Success /\ failed = NoFailure
               THEN [step |-> cur, err |-> err] ELSE failed
  /\ pc' = IF err # Success THEN "idle" ELSE NextPc(cur)
  /\ result' = IF err # Success THEN err
               ELSE IF NextPc(cur) = "idle" THEN Success ELSE result
  /\ okNames' = IF err = Success /\ NextPc(cur) = "idle"
                THEN okNames \cup {Name} ELSE okNames

(***************************************************************************)
(* Interpreter::instantiate, step by step.                                 *)
(***************************************************************************)
\* Enter with the store manager left as the call before left it
EnterKeepingStore ==
  /\ pc = "idle"
  /\ Len(store.ModInsts) < MaxModInsts
  /\ \E n \in Names, m \in InstantiateModes :
       /\ Name' = n
       /\ InsMode' = m
       /\ retry' = (n = Name /\ result \notin {"None", Success})
  /\ store' = store
  /\ stack' = <<>>
  /\ instrPdr' = "clean"
  /\ pc' = "CheckName"
  /\ Mod' = UnreadModule
  /\ ModInstAddr' = NoAddr
  /\ ElemOffsets' = <<>>
  /\ DataOffsets' = <<>>
  /\ result' = "Running"
  /\ log' = <<>>
  /\ entryStore' = store
  /\ preObs' = Observable(store)
  /\ failed' = NoFailure
  /\ ctorCalls' = 0
  /\ startRuns' = 0
  /\ UNCHANGED okNames

\* the call is entered: reset store manager, stack manager and instruction
\* provider
Enter ==
  /\ pc = "idle"
  /\ Len(store.ModInsts) < MaxModInsts
  /\ \E n \in Names, m \in InstantiateModes :
       /\ Name' = n
       /\ InsMode' = m
       /\ retry' = (n = Name /\ result \notin {"None", Success})
  /\ store' = StoreReset(store)
  /\ stack' = <<>>
  /\ instrPdr' = "clean"
  /\ pc' = "CheckName"
  /\ Mod' = UnreadModule
  /\ ModInstAddr' = NoAddr
  /\ ElemOffsets' = <<>>
  /\ DataOffsets' = <<>>
  /\ result' = "Running"
  /\ log' = <<>>
  /\ entryStore' = store
  /\ preObs' = Observable(store)
  /\ failed' = NoFailure
  /\ ctorCalls' = 0
  /\ startRuns' = 0
  /\ UNCHANGED okNames

\* check is module name duplicated
CheckName ==
  /\ pc = "CheckName"
  /\ Proceed("CheckName", TRUE,
             IF findModule(store, Name) # NoAddr THEN "ModuleNameConflict"
             ELSE Success)
  /\ entryStore' = EmptyStore
  /\ UNCHANGED <<store, stack, instrPdr, Mod, Name, InsMode, ModInstAddr,
                 ElemOffsets, DataOffsets, preObs, retry, ctorCalls, startRuns>>

\* insert the module instance to store manager and retrieve instance
PushModule ==
  /\ pc = "PushModule"
  /\ store' = IF InsMode = "Instantiate"
              THEN pushModule(store, NewModuleInstance(Name))
              ELSE importModule(store, NewModuleInstance(Name))
  /\ ModInstAddr' = Len(store.ModInsts)
  /\ Proceed("PushModule", TRUE, Success)
  /\ UNCHANGED <<stack, instrPdr, Mod, Name, InsMode, ElemOffsets,
                 DataOffsets, entryStore, preObs, retry, ctorCalls, startRuns>>

\* instantiate function types in module instance (TypeSec)
InstantiateTypeSec ==
  /\ pc = "TypeSec"
  /\ \E sec \in TypeOpts :
       /\ Mod' = [Mod EXCEPT !.TypeSec = sec]
       /\ store' = IF sec.present
                   THEN addFuncTypes(store, ModInstAddr, sec.content)
                   ELSE store
       /\ Proceed("TypeSec", sec.present, Success)
  /\ UNCHANGED <<stack, instrPdr, Name, InsMode, ModInstAddr, ElemOffsets,
                 DataOffsets, entryStore, preObs, retry, ctorCalls, startRuns>>

\* instantiate ImportSection and do import matching (ImportSec)
InstantiateImportSec ==
  /\ pc = "ImportSec"
  /\ \E sec \in ImportOpts :
       LET r == IF sec.present
                THEN instantiateImports(store, ModInstAddr, sec.content, 1)
                ELSE [store |-> store, err |-> Success]
       IN /\ Mod' = [Mod EXCEPT !.ImportSec = sec]
          /\ store' = r.store
          /\ Proceed("ImportSec", sec.present, r.err)
  /\ UNCHANGED <<stack, instrPdr, Name, InsMode, ModInstAddr, ElemOffsets,
                 DataOffsets, entryStore, preObs, retry, ctorCalls, startRuns>>

\* InstantiateFuncSec with the section routine not called
InstantiateFuncSecSkipped ==
  /\ pc = "FuncSec"
  /\ \E fc \in FuncCodeOpts(Mod.TypeSec) :
       /\ Mod' = [Mod EXCEPT !.FuncSec = fc[1], !.CodeSec = fc[2]]
       /\ store' = store
       /\ Proceed("FuncSec", FALSE, Success)
  /\ UNCHANGED <<stack, instrPdr, Name, InsMode, ModInstAddr, ElemOffsets,
                 DataOffsets, entryStore, preObs, retry, ctorCalls,
                 startRuns>>

\* instantiate functions in module (FunctionSec, CodeSec)
InstantiateFuncSec ==
  /\ pc = "FuncSec"
  /\ \E fc \in FuncCodeOpts(Mod.TypeSec) :
       LET both == fc[1].present /\ fc[2].present
           r == IF both
                THEN instantiateFuncs(store, ModInstAddr, fc[1].content,
                                      fc[2].content, 1)
                ELSE [store |-> store, err |-> Success]
       IN /\ Mod' = [Mod EXCEPT !.FuncSec = fc[1], !.CodeSec = fc[2]]
          /\ store' = r.store
          /\ Proceed("FuncSec", both, r.err)
  /\ UNCHANGED <<stack, instrPdr, Name, InsMode, ModInstAddr, ElemOffsets,
                 DataOffsets, entryStore, preObs, retry, ctorCalls, startRuns>>

\* instantiate GlobalSection (GlobalSec)
InstantiateGlobSec ==
  /\ pc = "GlobSec"
  /\ \E sec \in GlobOpts :
       LET r == IF sec.present
                THEN instantiateGlobals(store, ModInstAddr,
                                        NumImportedGlobals(Mod.ImportSec),
                                        sec.content, 1)
                ELSE [store |-> store, err |-> Success]
       IN /\ Mod' = [Mod EXCEPT !.GlobSec = sec]
          /\ store' = r.store
          /\ Proceed("GlobSec", sec.present, r.err)
  /\ UNCHANGED <<stack, instrPdr, Name, InsMode, ModInstAddr, ElemOffsets,
                 DataOffsets, entryStore, preObs, retry, ctorCalls, startRuns>>

\* instantiate TableSection (TableSec)
InstantiateTabSec ==
  /\ pc = "TabSec"
  /\ \E sec \in TabOpts :
       LET r == IF sec.present
                THEN instantiateTables(store, ModInstAddr, sec.content, 1)
                ELSE [store |-> store, err |-> Success]
       IN /\ Mod' = [Mod EXCEPT !.TabSec = sec]
          /\ store' = r.store
          /\ Proceed("TabSec", sec.present, r.err)
  /\ UNCHANGED <<stack, instrPdr, Name, InsMode, ModInstAddr, ElemOffsets,
                 DataOffsets, entryStore, preObs, retry, ctorCalls, startRuns>>

\* instantiate MemorySection (MemorySec)
InstantiateMemSec ==
  /\ pc = "MemSec"
  /\ \E sec \in MemOpts :
       LET r == IF sec.present
                THEN instantiateMemories(store, ModInstAddr, sec.content, 1)
                ELSE [store |-> store, err |-> Success]
       IN /\ Mod' = [Mod EXCEPT !.MemSec = sec]
          /\ store' = r.store
          /\ Proceed("MemSec", sec.present, r.err)
  /\ UNCHANGED <<stack, instrPdr, Name, InsMode, ModInstAddr, ElemOffsets,
                 DataOffsets, entryStore, preObs, retry, ctorCalls, startRuns>>

\* PushFrame without the push
PushFrameSkipped ==
  /\ pc = "PushFrame"
  /\ stack' = stack
  /\ Proceed("PushFrame", TRUE, Success)
  /\ UNCHANGED <<store, instrPdr, Mod, Name, InsMode, ModInstAddr,
                 ElemOffsets, DataOffsets, entryStore, preObs, retry,
                 ctorCalls, startRuns>>

\* make a new frame {ModInst, locals:none} and push
PushFrame ==
  /\ pc = "PushFrame"
  /\ stack' = pushFrame(stack, getModule(store, ModInstAddr).Addr, 0, 0)
  /\ Proceed("PushFrame", TRUE, Success)
  /\ UNCHANGED <<store, instrPdr, Mod, Name, InsMode, ModInstAddr,
                 ElemOffsets, DataOffsets, entryStore, preObs, retry, ctorCalls,
                 startRuns>>

\* resolve offset list of element section
ResolveElemOffsets ==
  /\ pc = "ResolveElem"
  /\ \E sec \in ElemOpts(Mod) :
       LET r == IF sec.present
                THEN resolveExpression(store, ModInstAddr,
                                       NumImportedGlobals(Mod.ImportSec),
                                       sec.content, 1)
                ELSE [err |-> Success, offsets |-> <<>>]
       IN /\ Mod' = [Mod EXCEPT !.ElemSec = sec]
          /\ ElemOffsets' = IF r.err = Success THEN r.offsets ELSE ElemOffsets
          /\ Proceed("ResolveElem", sec.present, r.err)
  /\ UNCHANGED <<store, stack, instrPdr, Name, InsMode, ModInstAddr,
                 DataOffsets, entryStore, preObs, retry, ctorCalls, startRuns>>

\* resolve offset list of data section
ResolveDataOffsets ==
  /\ pc = "ResolveData"
  /\ \E sec \in DataOpts(Mod) :
       LET r == IF sec.present
                THEN resolveExpression(store, ModInstAddr,
                                       NumImportedGlobals(Mod.ImportSec),
                                       sec.content, 1)
                ELSE [err |-> Success, offsets |-> <<>>]
       IN /\ Mod' = [Mod EXCEPT !.DataSec = sec]
          /\ DataOffsets' = IF r.err = Success THEN r.offsets ELSE DataOffsets
          /\ Proceed("ResolveData", sec.present, r.err)
  /\ UNCHANGED <<store, stack, instrPdr, Name, InsMode, ModInstAddr,
                 ElemOffsets, entryStore, preObs, retry, ctorCalls, startRuns>>

\* pop frame
PopFrame ==
  /\ pc = "PopFrame"
  /\ stack' = popFrame(stack)
  /\ Proceed("PopFrame", TRUE, Success)
  /\ UNCHANGED <<store, instrPdr, Mod, Name, InsMode, ModInstAddr,
                 ElemOffsets, DataOffsets, entryStore, preObs, retry, ctorCalls,
                 startRuns>>

\* InitElem with the result of the element initialization dropped
InitElemUnchecked ==
  /\ pc = "InitElem"
  /\ LET r == IF Mod.ElemSec.present
              THEN instantiateElems(store, ModInstAddr, Mod.ElemSec.content,
                                    ElemOffsets, 1)
              ELSE [store |-> store, err |-> Success]
     IN /\ store' = r.store
        /\ Proceed("InitElem", Mod.ElemSec.present, Success)
  /\ UNCHANGED <<stack, instrPdr, Mod, Name, InsMode, ModInstAddr,
                 ElemOffsets, DataOffsets, entryStore, preObs, retry, ctorCalls,
                 startRuns>>

\* instantiate initialization of table instances (ElemSec)
InitElem ==
  /\ pc = "InitElem"
  /\ LET r == IF Mod.ElemSec.present
              THEN instantiateElems(store, ModInstAddr, Mod.ElemSec.content,
                                    ElemOffsets, 1)
              ELSE [store |-> store, err |-> Success]
     IN /\ store' = r.store
        /\ Proceed("InitElem", Mod.ElemSec.present, r.err)
  /\ UNCHANGED <<stack, instrPdr, Mod, Name, InsMode, ModInstAddr,
                 ElemOffsets, DataOffsets, entryStore, preObs, retry, ctorCalls,
                 startRuns>>

\* instantiate initialization of memory instances (DataSec)
InitData ==
  /\ pc = "InitData"
  /\ LET r == IF Mod.DataSec.present
              THEN instantiateDatas(store, ModInstAddr, Mod.DataSec.content,
                                    DataOffsets, 1)
              ELSE [store |-> store, err |-> Success]
     IN /\ store' = r.store
        /\ Proceed("InitData", Mod.DataSec.present, r.err)
  /\ UNCHANGED <<stack, instrPdr, Mod, Name, InsMode, ModInstAddr,
                 ElemOffsets, DataOffsets, entryStore, preObs, retry, ctorCalls,
                 startRuns>>

\* instantiate ExportSection (ExportSec)
InstantiateExportSec ==
  /\ pc = "ExportSec"
  /\ \E sec \in ExportOpts :
       LET r == IF sec.present
                THEN instantiateExports(store, ModInstAddr, sec.content, 1)
                ELSE [store |-> store, err |-> Success]
       IN /\ Mod' = [Mod EXCEPT !.ExportSec = sec]
          /\ store' = r.store
          /\ Proceed("ExportSec", sec.present, r.err)
  /\ UNCHANGED <<stack, instrPdr, Name, InsMode, ModInstAddr, ElemOffsets,
                 DataOffsets, entryStore, preObs, retry, ctorCalls, startRuns>>

\* CallCtor with the constructor pointer not compared with nullptr
CallCtorUnguarded ==
  /\ pc = "Ctor"
  /\ \E ctor \in BOOLEAN :
       /\ Mod' = [Mod EXCEPT !.Ctor = ctor]
       /\ ctorCalls' = ctorCalls + 1
       /\ Proceed("Ctor", TRUE, Success)
  /\ UNCHANGED <<store, stack, instrPdr, Name, InsMode, ModInstAddr,
                 ElemOffsets, DataOffsets, entryStore, preObs, retry,
                 startRuns>>

\* call Ctor for compiled module
CallCtor ==
  /\ pc = "Ctor"
  /\ \E ctor \in BOOLEAN :
       /\ Mod' = [Mod EXCEPT !.Ctor = ctor]
       /\ ctorCalls' = IF ctor THEN ctorCalls + 1 ELSE ctorCalls
       /\ Proceed("Ctor", ctor, Success)
  /\ UNCHANGED <<store, stack, instrPdr, Name, InsMode, ModInstAddr,
                 ElemOffsets, DataOffsets, entryStore, preObs, retry,
                 startRuns>>

\* the start index resolves to a function of the instance that is in the
\* function arena of the Store
StartResolves(S, inst, idx) ==
  /\ idx >= 0 /\ idx < Len(inst.FuncAddrs)
  /\ inst.FuncAddrs[idx + 1] >= 0
  /\ inst.FuncAddrs[idx + 1] < Len(S.FuncInsts)

\* what dereferencing the unchecked getStartAddr() / getFunction() of an
\* index that does not resolve can end in: some code runs and returns or
\* traps, or the process faults
UndefinedOutcomes == {Success, "StartTrap", "Undefined"}

\* instantiate StartSection (StartSec)
InstantiateStartSec ==
  /\ pc = "StartSec"
  /\ \E sec \in StartOpts :
       /\ Mod' = [Mod EXCEPT !.StartSec = sec]
       /\ IF ~sec.present
          THEN /\ Proceed("StartSec", FALSE, Success)
               /\ UNCHANGED <<store, instrPdr, startRuns>>
          ELSE /\ store' = setModule(store, ModInstAddr,
                             [getModule(store, ModInstAddr) EXCEPT
                                !.StartIdx = sec.content])
               /\ IF StartResolves(store, getModule(store, ModInstAddr),
                                   sec.content)
                  THEN /\ startRuns' = startRuns + 1
                       /\ instrPdr' = "dirty"
                       /\ Proceed("StartSec", TRUE,
                            runFunction(store,
                              store.FuncInsts[
                                getModule(store, ModInstAddr)
                                  .FuncAddrs[sec.content + 1] + 1]))
                  ELSE \E out \in UndefinedOutcomes :
                         /\ startRuns' = IF out = "Undefined" THEN startRuns
                                         ELSE startRuns + 1
                         /\ instrPdr' = "dirty"
                         /\ Proceed("StartSec", TRUE, out)
  /\ UNCHANGED <<stack, Name, InsMode, ModInstAddr, ElemOffsets, DataOffsets,
                 entryStore, preObs, retry, ctorCalls>>

(***************************************************************************)
(* The caller, between two calls: StoreMgr.reset(), after which the record  *)
(* of the last call is of no more interest.                                *)
(***************************************************************************)
CallerReset ==
  /\ pc = "idle"
  /\ store # EmptyStore
  /\ store' = StoreReset(store)
  /\ okNames' = {}
  /\ Mod' = UnreadModule
  /\ result' = "None"
  /\ log' = <<>>
  /\ preObs' = Observable(EmptyStore)
  /\ failed' = NoFailure
  /\ ctorCalls' = 0
  /\ startRuns' = 0
  /\ ElemOffsets' = <<>>
  /\ DataOffsets' = <<>>
  /\ ModInstAddr' = NoAddr
  /\ retry' = FALSE
  /\ UNCHANGED <<stack, instrPdr, pc, Name, InsMode, entryStore>>

Next ==
  \/ Enter
  \/ CheckName
  \/ PushModule
  \/ InstantiateTypeSec
  \/ InstantiateImportSec
  \/ InstantiateFuncSec
  \/ InstantiateGlobSec
  \/ InstantiateTabSec
  \/ InstantiateMemSec
  \/ PushFrame
  \/ ResolveElemOffsets
  \/ ResolveDataOffsets
  \/ PopFrame
  \/ InitElem
  \/ InitData
  \/ InstantiateExportSec
  \/ CallCtor
  \/ InstantiateStartSec
  \/ CallerReset

Spec == Init /\ [][Next]_vars

(***************************************************************************)
(* Interpreter::instantiate as a function of its arguments: the outcomes   *)
(* of running the pipeline from step p on, for a module m, a name and a    *)
(* mode.  st is the Store, the address of the instance, the offsets and    *)
(* the steps executed so far.  The set has more than one element only      *)
(* where the start index is dereferenced without resolving.                *)
(***************************************************************************)
\* what step p does to st: the Store it leaves, its Expect, and whether it
\* had any work
StepOutcomes(p, st, m, mode, name) ==
  LET S == st.store
      ma == st.addr
      nImp == NumImportedGlobals(m.ImportSec)
      skip == [store |-> S, err |-> Success]
      One(ran, r) ==
        {[store |-> r.store, addr |-> ma, eo |-> st.eo, do |-> st.do,
          ran |-> ran, err |-> r.err]}
  IN CASE p = "CheckName" ->
            One(TRUE, [store |-> S,
                       err |-> IF findModule(S, name) # NoAddr
                               THEN "ModuleNameConflict" ELSE Success])
       [] p = "PushModule" ->
            {[store |-> IF mode = "Instantiate"
                        THEN pushModule(S, NewModuleInstance(name))
                        ELSE importModule(S, NewModuleInstance(name)),
              addr |-> Len(S.ModInsts), eo |-> st.eo, do |-> st.do,
              ran |-> TRUE, err |-> Success]}
       [] p = "TypeSec" ->
            One(m.TypeSec.present,
                IF m.TypeSec.present
                THEN [store |-> addFuncTypes(S, ma, m.TypeSec.content),
                      err |-> Success]
                ELSE skip)
       [] p = "ImportSec" ->
            One(m.ImportSec.present,
                IF m.ImportSec.present
                THEN instantiateImports(S, ma, m.ImportSec.content, 1)
                ELSE skip)
       [] p = "FuncSec" ->
            One(m.FuncSec.present /\ m.CodeSec.present,
                IF m.FuncSec.present /\ m.CodeSec.present
                THEN instantiateFuncs(S, ma, m.FuncSec.content,
                                      m.CodeSec.content, 1)
                ELSE skip)
       [] p = "GlobSec" ->
            One(m.GlobSec.present,
                IF m.GlobSec.present
                THEN instantiateGlobals(S, ma, nImp, m.GlobSec.content, 1)
                ELSE skip)
       [] p = "TabSec" ->
            One(m.TabSec.present,
                IF m.TabSec.present
                THEN instantiateTables(S, ma, m.TabSec.content, 1)
                ELSE skip)
       [] p = "MemSec" ->
            One(m.MemSec.present,
                IF m.MemSec.present
                THEN instantiateMemories(S, ma, m.MemSec.content, 1)
                ELSE skip)
       [] p \in {"PushFrame", "PopFrame"} -> One(TRUE, skip)
       [] p = "ResolveElem" ->
            LET r == IF m.ElemSec.present
                     THEN resolveExpression(S, ma, nImp, m.ElemSec.content, 1)
                     ELSE [err |-> Success, offsets |-> <<>>]
            IN {[store |-> S, addr |-> ma, eo |-> r.offsets, do |-> st.do,
                 ran |-> m.ElemSec.present, err |-> r.err]}
       [] p = "ResolveData" ->
            LET r == IF m.DataSec.present
                     THEN resolveExpression(S, ma, nImp, m.DataSec.content, 1)
                     ELSE [err |-> Success, offsets |-> <<>>]
            IN {[store |-> S, addr |-> ma, eo |-> st.eo, do |-> r.offsets,
                 ran |-> m.DataSec.present, err |-> r.err]}
       [] p = "InitElem" ->
            One(m.ElemSec.present,
                IF m.ElemSec.present
                THEN instantiateElems(S, ma, m.ElemSec.content, st.eo, 1)
                ELSE skip)
       [] p = "InitData" ->
            One(m.DataSec.present,
                IF m.DataSec.present
                THEN instantiateDatas(S, ma, m.DataSec.content, st.do, 1)
                ELSE skip)
       [] p = "ExportSec" ->
            One(m.ExportSec.present,
                IF m.ExportSec.present
                THEN instantiateExports(S, ma, m.ExportSec.content, 1)
                ELSE skip)
       [] p = "Ctor" -> One(m.Ctor, skip)
       [] OTHER ->
            IF ~m.StartSec.present THEN One(FALSE, skip)
            ELSE LET S1 == setModule(S, ma, [getModule(S, ma) EXCEPT
                                               !.StartIdx = m.StartSec.content])
                     inst == getModule(S, ma)
                 IN IF StartResolves(S, inst, m.StartSec.content)
                    THEN One(TRUE,
                             [store |-> S1,
                              err |-> runFunction(S,
                                        S.FuncInsts[
                                          inst.FuncAddrs[
                                            m.StartSec.content + 1] + 1])])
                    ELSE {[store |-> S1, addr |-> ma, eo |-> st.eo,
                           do |-> st.do, ran |-> TRUE, err |-> out] :
                            out \in UndefinedOutcomes}

RECURSIVE RunFrom(_, _, _, _, _)
RunFrom(p, st, m, mode, name) ==
  UNION {LET steps == IF r.ran THEN Append(st.log, p) ELSE st.log
         IN IF r.err # Success
            THEN {[store |-> r.store, result |-> r.err, log |-> steps]}
            ELSE IF NextPc(p) = "idle"
            THEN {[store |-> r.store, result |-> Success, log |-> steps]}
            ELSE RunFrom(NextPc(p),
                         [store |-> r.store, addr |-> r.addr, eo |-> r.eo,
                          do |-> r.do, log |-> steps],
                         m, mode, name) :
           r \in StepOutcomes(p, st, m, mode, name)}

\* the outcomes of instantiate(S, m, name) in a mode, the reset of line 15
\* included
RunPipeline(S, m, mode, name) ==
  RunFrom("CheckName",
          [store |-> StoreReset(S), addr |-> NoAddr, eo |-> <<>>,
           do |-> <<>>, log |-> <<>>],
          m, mode, name)

(***************************************************************************)
(* Properties.                                                             *)
(***************************************************************************)
\* a call of instantiate has returned and the caller has not reset since
Returned == pc = "idle" /\ result # "None"

\* the call returned a failure produced after the instance was placed
FailedAfterPush ==
  Returned /\ result # Success /\ failed.step # "CheckName"

\* the instance S holds for the call, if it still holds one
CallInstances(S) ==
  {inst \in RangeOf(S.ModInsts) : inst.Addr = ModInstAddr /\ inst.Name = Name}

\* the instance has an address of its own (beyond its imports) in a space
OwnsEntity(inst) ==
  \E kind \in {"Function", "Table", "Memory", "Global"} :
    Len(AddrSpace(inst, kind)) > NumImported(Mod.ImportSec, kind)

\* C1: when instantiate fails at a step after the new instance was placed in
\* the Store, on return the name does not resolve to the failing instance and
\* no function, table, memory or global allocated for it is left in the Store.
C1_FailureRollsBack ==
  FailedAfterPush =>
    /\ findModule(store, Name) = NoAddr
    /\ \A inst \in CallInstances(store) : ~OwnsEntity(inst)
    /\ \A i \in 1..Len(store.FuncInsts) :
         store.FuncInsts[i].Mod # ModInstAddr

\* C2: once instantiate has returned success for a name, no later call with
\* that name (without a reset by the caller in between) gets past the name
\* check: it fails with ModuleNameConflict.
C2_SecondInstantiateConflicts ==
  /\ (pc \notin {"idle", "CheckName"}) => Name \notin okNames
  /\ (pc = "idle" /\ failed.step = "CheckName") =>
       result = "ModuleNameConflict"

\* C3: step 1 leaves the Store unchanged: when the name-uniqueness check runs
\* the Store is the Store the call was entered with.
C3_ResetKeepsStore == pc = "CheckName" => store = entryStore

\* the failing steps C4 is about: import resolution, allocation, offset
\* resolution and segment application
Steps5To12 ==
  {"ImportSec", "FuncSec", "GlobSec", "TabSec", "MemSec", "ResolveElem",
   "ResolveData", "InitElem", "InitData"}

\* C4: after a call that failed in steps 5 to 12 the observable state of the
\* Store (name map, export lookups) is what it was before the call.
C4_FailureKeepsObservable ==
  (Returned /\ failed.step \in Steps5To12) => Observable(store) = preObs

\* the resolved offset plus the length of some segment exceeds the capacity
\* of the table it targets
ElemOverflows ==
  \E inst \in CallInstances(store) :
    \E i \in 1..Len(Mod.ElemSec.content) :
      LET seg == Mod.ElemSec.content[i] IN
      /\ i <= Len(ElemOffsets)
      /\ seg.Idx < Len(inst.TabAddrs)
      /\ ElemOffsets[i] + Len(seg.Init) >
           Len(store.TabInsts[inst.TabAddrs[seg.Idx + 1] + 1].Elems)

\* the same for the data segments and the memories
DataOverflows ==
  \E inst \in CallInstances(store) :
    \E i \in 1..Len(Mod.DataSec.content) :
      LET seg == Mod.DataSec.content[i] IN
      /\ i <= Len(DataOffsets)
      /\ seg.Idx < Len(inst.MemAddrs)
      /\ DataOffsets[i] + Len(seg.Init) >
           Len(store.MemInsts[inst.MemAddrs[seg.Idx + 1] + 1].Bytes)

\* the tables and memories reachable through the exports of an observable
\* state, each with its address and content
ReachableSlots(obs) ==
  {[kind |-> e.kind, addr |-> e.addr, content |-> e.content] :
     e \in {x \in UNION {obs[n].exports : n \in Names} :
              x.kind \in {"Table", "Memory"}}}

C6_StartTrapHidesModule ==
  (/\ Returned
   /\ failed.step = "StartSec"
   /\ \E inst \in CallInstances(store) :
        /\ StartResolves(store, inst, inst.StartIdx)
        /\ store.FuncInsts[inst.FuncAddrs[inst.StartIdx + 1] + 1].Body
             = "unreachable") =>
    /\ result = "StartTrap"
    /\ ~Observable(store)[Name].found

\* the steps in the order the claim gives them
ClaimedOrder ==
  <<"TypeSec", "ImportSec", "FuncSec", "GlobSec", "TabSec", "MemSec",
    "ResolveElem", "ResolveData", "InitElem", "InitData", "ExportSec", "Ctor",
    "StartSec">>

ClaimedNo(p) == CHOOSE i \in 1..Len(ClaimedOrder) : ClaimedOrder[i] = p

ClaimedSteps == RangeOf(ClaimedOrder)

\* C7: the steps of a call are executed in the claimed order, none twice:
\* of two executed steps the one executed first comes first in that order;
\* and while a segment is written no export is published, and exports are
\* published when the start function runs.
C7_StepsInOrder ==
  /\ \A i, j \in 1..Len(log) :
       (i < j /\ log[i] \in ClaimedSteps /\ log[j] \in ClaimedSteps) =>
         ClaimedNo(log[i]) < ClaimedNo(log[j])
  /\ \A inst \in CallInstances(store) :
       (pc \in {"InitElem", "InitData"}) => inst.Exports = <<>>
  /\ \A inst \in CallInstances(store) :
       (startRuns > 0 /\ Mod.ExportSec.present) => inst.Exports # <<>>

\* C7 witness: a call that executed every one of the steps
C7_Witness ==
  /\ Returned
  /\ ClaimedSteps \subseteq RangeOf(log)

\* C8: once a step has failed, instantiate has returned, with the error of
\* that step, and the failing step is the last one executed: no constructor
\* hook or start function ran after it.
C8_FailureStopsPipeline ==
  failed # NoFailure =>
    /\ pc = "idle"
    /\ result = failed.err
    /\ log # <<>> /\ log[Len(log)] = failed.step
    /\ failed.step # "StartSec" => startRuns = 0
    /\ failed.step \notin {"Ctor", "StartSec"} => ctorCalls = 0

\* C8 witness: a call failed in the middle of the pipeline, at the globals
C8_Witness ==
  /\ Returned
  /\ failed.step = "GlobSec"
  /\ result = "InvalidInitializer"

\* C9: whenever instantiate returns the Stack holds nothing the call pushed.
C9_StackCleanOnReturn == Returned => stack = <<>>

\* an export lookup the caller could make before the call satisfies an
\* import descriptor
MatchesExport(d, e) ==
  /\ e.name = d.ExtName
  /\ e.kind = d.ExtType
  /\ e.addr # NoAddr
  /\ CASE d.ExtType = "Global" -> e.globType = d.GlobType
       [] d.ExtType \in {"Table", "Memory"} ->
            d.Lim.Min <= Len(e.content) /\ ~hasMax(d.Lim)
       [] OTHER -> FALSE

\* position of the i-th import descriptor in the address space of its kind
ImportPos(descs, i) ==
  Cardinality({j \in 1..i : descs[j].ExtType = descs[i].ExtType})

\* C10: when the import step of a call has run, every import of an entity
\* that a successfully instantiated module exported with a matching type
\* has been resolved, to the address the export resolved to.
C10_ImportResolvesToExport ==
  (Mod.ImportSec.present /\ pc \notin {"CheckName", "PushModule", "TypeSec",
                                       "ImportSec"}) =>
    \A i \in 1..Len(Mod.ImportSec.content) :
      LET d == Mod.ImportSec.content[i] IN
      \A e \in preObs[d.ModName].exports :
        (d.ModName \in okNames \ {Name} /\ MatchesExport(d, e)) =>
          /\ failed.step # "ImportSec"
          /\ \A inst \in CallInstances(store) :
               /\ Len(AddrSpace(inst, d.ExtType)) >=
                    ImportPos(Mod.ImportSec.content, i)
               /\ AddrSpace(inst, d.ExtType)[
                    ImportPos(Mod.ImportSec.content, i)] = e.addr

\* a segment list whose offsets are i32 constants and whose segments end
\* within size entries
SegmentsInBounds(sec, size) ==
  \A i \in 1..Len(sec.content) :
    /\ sec.content[i].Offset.op = "i32.const"
    /\ sec.content[i].Offset.v >= 0
    /\ sec.content[i].Offset.v + Len(sec.content[i].Init) <= size

\* a module, as far as it has been read, that gives no step a reason to
\* fail: it imports nothing, its initializers are constants of the declared
\* type, its segments are in bounds, its export names are distinct, and its
\* start function exists and returns
Sound(m) ==
  /\ m.ImportSec.content = <<>>
  /\ \A i \in 1..Len(m.GlobSec.content) :
       /\ m.GlobSec.content[i].Init.op \in ConstOps
       /\ ConstType(m.GlobSec.content[i].Init.op)
            = m.GlobSec.content[i].GlobType.Type
  /\ SegmentsInBounds(m.ElemSec, LimitMin)
  /\ SegmentsInBounds(m.DataSec, LimitMin * PageSize)
  /\ \A i, j \in 1..Len(m.ExportSec.content) :
       m.ExportSec.content[i].ExtName = m.ExportSec.content[j].ExtName
         => i = j
  /\ m.StartSec.present =>
       /\ m.StartSec.content < Len(m.FuncSec.content)
       /\ m.StartSec.content < Len(m.CodeSec.content)
       /\ m.CodeSec.content[m.StartSec.content + 1] # "unreachable"

\* C11: a call of instantiate under the name of the call before it, which
\* failed, does not fail with ModuleNameConflict, and it succeeds when its
\* module is sound (its segments in bounds): the failed attempt is no reason
\* for the retry to fail.
C11_RetryAfterFailureSucceeds ==
  (Returned /\ retry) =>
    /\ result # "ModuleNameConflict"
    /\ Sound(Mod) => result = Success

\* a retry under a name the failed call left bound has succeeded with a data
\* section whose segments are in bounds
C11_Witness ==
  /\ Returned /\ retry /\ result = Success
  /\ preObs[Name].found
  /\ Mod.DataSec.present

\* the call was given a module with no section and no constructor, under a
\* name the Store did not hold, and has returned
EmptyModuleCall ==
  Returned /\ Mod = UnreadModule /\ ~preObs[Name].found

\* C12: for a module with no sections at all and a name not present in the
\* Store, instantiate returns success, the Store holds an instance of that
\* name whose four address spaces and whose export map are empty, and
\* neither the constructor hook nor a start function has run.
C12_EmptyModuleSucceeds ==
  EmptyModuleCall =>
    /\ result = Success
    /\ findModule(store, Name) # NoAddr
    /\ LET inst == getModule(store, findModule(store, Name))
       IN /\ inst.Name = Name
          /\ inst.FuncAddrs = <<>>
          /\ inst.TabAddrs = <<>>
          /\ inst.MemAddrs = <<>>
          /\ inst.GlobAddrs = <<>>
          /\ inst.Exports = <<>>
    /\ ctorCalls = 0
    /\ startRuns = 0
    /\ instrPdr = "clean"

\* the call of an empty module has gone through the whole pipeline with
\* nothing to do but place the instance and push and pop the frame
C12_Witness ==
  /\ EmptyModuleCall
  /\ result = Success
  /\ log = <<"CheckName", "PushModule", "PushFrame", "PopFrame">>

OtherMode(mode) == IF mode = "Instantiate" THEN "Import" ELSE "Instantiate"

\* a Store without the record of which bucket published each name
WithoutBuckets(S) ==
  [S EXCEPT !.ModMap = {[name |-> b.name, addr |-> b.addr] : b \in @}]

StartUnresolved ==
  /\ Returned
  /\ Mod.StartSec.present
  /\ ~StartResolves(store, getModule(store, ModInstAddr),
                    Mod.StartSec.content)

\* C14: if the index of the Start section does not resolve to a function of
\* the instance, or the address it resolves to is outside the function
\* arena, instantiate returns BadAddress and runs no function.
C14_UnresolvedStartIsBadAddress ==
  StartUnresolved => (result = "BadAddress" /\ startRuns = 0)

\* the top frame of a Stack is a synthetic frame (no arguments, no results)
\* of the module at modAddr
TopFrameIsSynthetic(stk, modAddr) ==
  /\ FrameIdxs(stk) # {}
  /\ stk[TopFrameIdx(stk)] = Frame(modAddr, 0, 0)

NothingWritten(S) ==
  /\ \A a \in 1..Len(S.TabInsts) :
       \A k \in DOMAIN S.TabInsts[a].Elems : S.TabInsts[a].Elems[k] = NoAddr
  /\ \A a \in 1..Len(S.MemInsts) :
       \A k \in DOMAIN S.MemInsts[a].Bytes : S.MemInsts[a].Bytes[k] = 0

\* C16: the offsets of all element segments and of all data segments are
\* evaluated before any table slot or memory byte is written; when the
\* evaluation of an offset fails with InvalidInitializer, the call has
\* modified no table and no memory.
C16_OffsetsBeforeWrites ==
  /\ \A i, j \in 1..Len(log) :
       (log[i] \in {"ResolveElem", "ResolveData"}
          /\ log[j] \in {"InitElem", "InitData"}) => i < j
  /\ pc \in {"ResolveElem", "ResolveData", "PopFrame", "InitElem"} =>
       NothingWritten(store)
  /\ "InitElem" \in RangeOf(log) =>
       Len(ElemOffsets) = Len(Mod.ElemSec.content)
  /\ "InitData" \in RangeOf(log) =>
       Len(DataOffsets) = Len(Mod.DataSec.content)
  /\ (Returned /\ failed.step \in {"ResolveElem", "ResolveData"}
        /\ failed.err = "InvalidInitializer") => NothingWritten(store)

\* the offset of a data segment has failed to evaluate after the offsets of
\* the element segments were resolved
C16_Witness ==
  /\ Returned
  /\ failed = [step |-> "ResolveData", err |-> "InvalidInitializer"]
  /\ Mod.ElemSec.present
  /\ ElemOffsets # <<>>

\* the addresses of a space from the k-th on are those of n entities
\* allocated one after the other
Consecutive(addrs, k, n) ==
  /\ Len(addrs) = k + n
  /\ \A i \in 1..n : addrs[k + i] >= 0
  /\ \A i \in 1..(n - 1) : addrs[k + i + 1] = addrs[k + i] + 1

ExportsPublished ==
  \/ pc \in {"Ctor", "StartSec"}
  \/ Returned /\ failed.step \in {"none", "StartSec"}

\* C19: the constructor hook is invoked at most once per call; it is invoked
\* exactly when the module has a constructor pointer and the publication of
\* the exports and every earlier step succeeded, after the exports are
\* published and before the start function runs, and never in a call that
\* fails at or before the publication of the exports.
C19_CtorOnceAfterExports ==
  /\ ctorCalls <= 1
  /\ (ctorCalls = 1) <=> ("Ctor" \in RangeOf(log))
  /\ \A i, j \in 1..Len(log) :
       /\ (log[i] = "Ctor" /\ log[j] = "ExportSec") => j < i
       /\ (log[i] = "Ctor" /\ log[j] = "StartSec") => i < j
  /\ ctorCalls = 1 =>
       /\ ExportsPublished
       /\ Mod.Ctor
       /\ getModule(store, ModInstAddr).Exports = Mod.ExportSec.content
  /\ pc = "Ctor" => (ctorCalls = 0 /\ startRuns = 0)
  /\ (pc = "StartSec"
        \/ (Returned /\ failed.step \in {"none", "StartSec"})) =>
       ((ctorCalls = 1) <=> Mod.Ctor)
  /\ (Returned /\ failed.step \notin {"none", "StartSec"}) => ctorCalls = 0

\* the hook of a module with exports and a start function has been called
\* and the call has returned
C19_Witness ==
  /\ Returned /\ result = Success
  /\ ctorCalls = 1
  /\ Mod.ExportSec.present
  /\ startRuns = 1

====
